---- MODULE Spec2Model ----
(***************************************************************************)
(* Model of http-body-util's two body combinators:                         *)
(*   Limited<B>  (src/http-body-util/src/limited.rs)                        *)
(*   Either<L,R> (src/http-body-util/src/either.rs)                         *)
(*                                                                         *)
(* The wrapped producer is external to both combinators.  It is modelled   *)
(* as an arbitrary producer: every poll of it answers with any value of    *)
(* its result type, and its size hint may change at any time.              *)
(***************************************************************************)
EXTENDS Integers, Sequences, FiniteSets

VARIABLES
    limit,          \* the `limit` argument of Limited::new
    remaining,      \* Limited.remaining
    innerErrorType, \* B::Error of the wrapped producer
    innerHint,      \* what the wrapped producer's size_hint() answers now
    lastPoll,       \* history: Option, the latest call of Limited::poll_frame
    produced,       \* history: data bytes the wrapped producer has yielded
    delivered,      \* history: data bytes Limited has returned as Ok
    raisedEver,     \* history: Limited has created a LengthLimitError
    errored,        \* history: Limited has returned some error
    typeParams,     \* the type parameters L and R of Either<L, R>
    either,         \* the Either value (NoEither once into_inner consumed it)
    constructed,    \* history: the Either value as it was constructed
    eitherPolls,    \* history: number of calls of Either::poll_frame
    lastEitherPoll, \* history: Option, the latest call of Either::poll_frame
    unwrapped,      \* Option: the value into_inner returned
    hintInput,      \* what one call of Limited::size_hint is given
    hinted          \* history: Option, the latest call of Limited::size_hint

limitedVars ==
    <<limit, remaining, innerErrorType, innerHint, lastPoll, produced,
      delivered, raisedEver, errored>>

eitherVars ==
    <<typeParams, either, constructed, eitherPolls, lastEitherPoll, unwrapped>>

hintVars == <<hintInput, hinted>>

vars == <<limitedVars, eitherVars, hintVars>>

----------------------------------------------------------------------------
(* Bounds of the model *)

MaxLimit == 3
MaxFrameLen == 2
MaxProduced == 5
MaxHint == 2
MaxCursor == 3

(* Widths of the two integer types size_hint converts between *)
UsizeBits == 64
U64Bits == 64

Bytes == {0, 1}
TrailerMaps == {"t1", "t2"}

----------------------------------------------------------------------------
(* Values *)

(* Option<T> is a sequence of length at most one *)
NoneOpt == <<>>
SomeOpt(x) == <<x>>
IsSome(o) == Len(o) = 1
Unwrap(o) == o[1]

(* Frame<Data>: data or trailers, never both *)
DataFrame(d) == [tag |-> "Data", data |-> d]
TrailersFrame(t) == [tag |-> "Trailers", trailers |-> t]

(* Frame::data_ref *)
DataRef(frame) ==
    IF frame.tag = "Data" THEN SomeOpt(frame.data) ELSE NoneOpt

(* Buf::remaining of a data chunk *)
BufRemaining(data) == Len(data)

(* Poll<Option<Result<Frame, E>>> *)
Pending == [poll |-> "Pending"]
ReadyNone == [poll |-> "None"]
ReadyOk(frame) == [poll |-> "Ok", frame |-> frame]
ReadyErr(e) == [poll |-> "Err", err |-> e]

(* Errors.  A value is either a concrete error of type `type`, or that    *)
(* error behind Box<dyn Error + Send + Sync>.                              *)
Concrete(ty) == [type |-> ty, boxed |-> FALSE]
Boxed(ty) == [type |-> ty, boxed |-> TRUE]

LengthLimitError == Concrete("LengthLimitError")

(* Into<Box<dyn Error + Send + Sync>>: a concrete error is boxed, a box is *)
(* already the target type and converts to itself.                         *)
IntoBoxError(e) == IF e.boxed THEN e ELSE Boxed(e.type)

(* poll.map(|opt| opt.map_err(Into::into)) under Poll::map *)
MapErrInto(res) ==
    IF res.poll = "Err" THEN ReadyErr(IntoBoxError(res.err)) ELSE res

(* <dyn Error>::downcast_ref::<ty> on a box *)
DowncastRef(b, ty) ==
    IF b.boxed /\ b.type = ty THEN SomeOpt(Concrete(ty)) ELSE NoneOpt

(* SizeHint { lower, upper } *)
Hint(lo, up) == [lower |-> lo, upper |-> up]

(* SizeHint::set_exact *)
SetExact(hint, n) == Hint(n, SomeOpt(n))

(* SizeHint::set_upper, which asserts value >= lower *)
PanicHint == [panic |-> "value is less than lower"]

SetUpper(hint, n) ==
    IF n >= hint.lower THEN Hint(hint.lower, SomeOpt(n)) ELSE PanicHint

Min(a, b) == IF a <= b THEN a ELSE b

----------------------------------------------------------------------------
(* The wrapped producer *)

RECURSIVE SeqsUpTo(_, _)
SeqsUpTo(S, n) ==
    IF n = 0 THEN {<<>>}
    ELSE LET shorter == SeqsUpTo(S, n - 1)
         IN  shorter \cup {Append(s, x) : s \in shorter, x \in S}

Chunks == SeqsUpTo(Bytes, MaxFrameLen)

Frames == {DataFrame(d) : d \in Chunks} \cup {TrailersFrame(t) : t \in TrailerMaps}

(* B::Error is one type per producer: a concrete error type, or the erased *)
(* Box<dyn Error + Send + Sync> (the error type of a Limited or an Either  *)
(* used as the wrapped producer).                                          *)
InnerErrorTypes == {"ErrorBodyError", "Box"}

InnerErrors(ety) ==
    IF ety = "Box"
    THEN {Boxed("ErrorBodyError"), Boxed("LengthLimitError")}
    ELSE {Concrete(ety)}

InnerResults(ety) ==
    {Pending, ReadyNone}
        \cup {ReadyOk(f) : f \in Frames}
        \cup {ReadyErr(e) : e \in InnerErrors(ety)}

InnerHints ==
    {Hint(lo, NoneOpt) : lo \in 0..MaxHint}
        \cup {Hint(lo, SomeOpt(up)) : lo \in 0..MaxHint, up \in 0..MaxHint}

ValidInnerHints ==
    {h \in InnerHints : IsSome(h.upper) => h.lower <= Unwrap(h.upper)}

----------------------------------------------------------------------------
(* Limited<B> *)

(* Limited::new *)
LimitedNew(lim) == [remaining |-> lim]

(* Variants of Limited::poll_frame, each with one plausible slip *)

(* the budget is not decremented when a data frame passes *)
PollFrameNoDecrement(rem, res) ==
    IF res.poll = "Ok" /\ IsSome(DataRef(res.frame))
    THEN IF BufRemaining(Unwrap(DataRef(res.frame))) > rem
         THEN [out |-> ReadyErr(IntoBoxError(LengthLimitError)),
               remaining |-> 0, raised |-> TRUE]
         ELSE [out |-> ReadyOk(res.frame), remaining |-> rem, raised |-> FALSE]
    ELSE [out |-> MapErrInto(res), remaining |-> rem, raised |-> FALSE]

(* `>=` for `>`: a frame that uses the budget up exactly is refused *)
PollFrameOffByOne(rem, res) ==
    IF res.poll = "Ok" /\ IsSome(DataRef(res.frame))
    THEN IF BufRemaining(Unwrap(DataRef(res.frame))) >= rem
         THEN [out |-> ReadyErr(IntoBoxError(LengthLimitError)),
               remaining |-> 0, raised |-> TRUE]
         ELSE [out |-> ReadyOk(res.frame),
               remaining |-> rem - BufRemaining(Unwrap(DataRef(res.frame))),
               raised |-> FALSE]
    ELSE [out |-> MapErrInto(res), remaining |-> rem, raised |-> FALSE]

(* each frame is checked against the whole limit, not the remaining budget *)
PollFramePerFrameLimit(rem, res) ==
    IF res.poll = "Ok" /\ IsSome(DataRef(res.frame))
    THEN LET n == BufRemaining(Unwrap(DataRef(res.frame))) IN
         IF n > limit
         THEN [out |-> ReadyErr(IntoBoxError(LengthLimitError)),
               remaining |-> 0, raised |-> TRUE]
         ELSE [out |-> ReadyOk(res.frame),
               remaining |-> IF n > rem THEN 0 ELSE rem - n, raised |-> FALSE]
    ELSE [out |-> MapErrInto(res), remaining |-> rem, raised |-> FALSE]

(* the part of an over-budget frame that fits is delivered *)
PollFrameDeliversPrefix(rem, res) ==
    IF res.poll = "Ok" /\ IsSome(DataRef(res.frame))
    THEN LET data == Unwrap(DataRef(res.frame)) IN
         IF BufRemaining(data) > rem
         THEN IF rem > 0
              THEN [out |-> ReadyOk(DataFrame(SubSeq(data, 1, rem))),
                    remaining |-> 0, raised |-> FALSE]
              ELSE [out |-> ReadyErr(IntoBoxError(LengthLimitError)),
                    remaining |-> 0, raised |-> TRUE]
         ELSE [out |-> ReadyOk(res.frame),
               remaining |-> rem - BufRemaining(data), raised |-> FALSE]
    ELSE [out |-> MapErrInto(res), remaining |-> rem, raised |-> FALSE]

(* a zero budget refuses every frame, trailers included *)
PollFrameZeroBudgetRefusesAll(rem, res) ==
    IF res.poll = "Ok"
    THEN LET n == IF IsSome(DataRef(res.frame))
                  THEN BufRemaining(Unwrap(DataRef(res.frame))) ELSE 0 IN
         IF n > rem \/ rem = 0
         THEN [out |-> ReadyErr(IntoBoxError(LengthLimitError)),
               remaining |-> 0, raised |-> TRUE]
         ELSE [out |-> ReadyOk(res.frame), remaining |-> rem - n, raised |-> FALSE]
    ELSE [out |-> MapErrInto(res), remaining |-> rem, raised |-> FALSE]

(* an error of the wrapped producer also zeroes the budget *)
PollFrameInnerErrorZeroesBudget(rem, res) ==
    IF res.poll = "Ok" /\ IsSome(DataRef(res.frame))
    THEN IF BufRemaining(Unwrap(DataRef(res.frame))) > rem
         THEN [out |-> ReadyErr(IntoBoxError(LengthLimitError)),
               remaining |-> 0, raised |-> TRUE]
         ELSE [out |-> ReadyOk(res.frame),
               remaining |-> rem - BufRemaining(Unwrap(DataRef(res.frame))),
               raised |-> FALSE]
    ELSE [out |-> MapErrInto(res),
          remaining |-> IF res.poll = "Err" THEN 0 ELSE rem, raised |-> FALSE]

(* the budget is not zeroed when the limit error is created *)
PollFrameKeepsBudget(rem, res) ==
    IF res.poll = "Ok" /\ IsSome(DataRef(res.frame))
    THEN IF BufRemaining(Unwrap(DataRef(res.frame))) > rem
         THEN [out |-> ReadyErr(IntoBoxError(LengthLimitError)),
               remaining |-> rem, raised |-> TRUE]
         ELSE [out |-> ReadyOk(res.frame),
               remaining |-> rem - BufRemaining(Unwrap(DataRef(res.frame))),
               raised |-> FALSE]
    ELSE [out |-> MapErrInto(res), remaining |-> rem, raised |-> FALSE]

(* frames are counted, not bytes: a passing data frame costs one *)
PollFrameCountsFrames(rem, res) ==
    IF res.poll = "Ok" /\ IsSome(DataRef(res.frame))
    THEN IF BufRemaining(Unwrap(DataRef(res.frame))) > rem
         THEN [out |-> ReadyErr(IntoBoxError(LengthLimitError)),
               remaining |-> 0, raised |-> TRUE]
         ELSE [out |-> ReadyOk(res.frame),
               remaining |-> IF rem > 0 THEN rem - 1 ELSE 0, raised |-> FALSE]
    ELSE [out |-> MapErrInto(res), remaining |-> rem, raised |-> FALSE]

(* the length is subtracted without the check before it *)
PollFrameUncheckedSub(rem, res) ==
    IF res.poll = "Ok" /\ IsSome(DataRef(res.frame))
    THEN [out |-> ReadyOk(res.frame),
          remaining |-> rem - BufRemaining(Unwrap(DataRef(res.frame))),
          raised |-> FALSE]
    ELSE [out |-> MapErrInto(res), remaining |-> rem, raised |-> FALSE]

(* the end of the wrapped producer is answered with Pending *)
PollFrameNoneBecomesPending(rem, res) ==
    IF res.poll = "Ok" /\ IsSome(DataRef(res.frame))
    THEN IF BufRemaining(Unwrap(DataRef(res.frame))) > rem
         THEN [out |-> ReadyErr(IntoBoxError(LengthLimitError)),
               remaining |-> 0, raised |-> TRUE]
         ELSE [out |-> ReadyOk(res.frame),
               remaining |-> rem - BufRemaining(Unwrap(DataRef(res.frame))),
               raised |-> FALSE]
    ELSE [out |-> IF res.poll = "None" THEN Pending ELSE MapErrInto(res),
          remaining |-> rem, raised |-> FALSE]

(* the end of the wrapped producer zeroes the budget *)
PollFrameNoneZeroesBudget(rem, res) ==
    IF res.poll = "Ok" /\ IsSome(DataRef(res.frame))
    THEN IF BufRemaining(Unwrap(DataRef(res.frame))) > rem
         THEN [out |-> ReadyErr(IntoBoxError(LengthLimitError)),
               remaining |-> 0, raised |-> TRUE]
         ELSE [out |-> ReadyOk(res.frame),
               remaining |-> rem - BufRemaining(Unwrap(DataRef(res.frame))),
               raised |-> FALSE]
    ELSE [out |-> MapErrInto(res),
          remaining |-> IF res.poll = "None" THEN 0 ELSE rem, raised |-> FALSE]

(* an error of the wrapped producer is swallowed and answered with Pending *)
PollFrameSwallowsInnerError(rem, res) ==
    IF res.poll = "Ok" /\ IsSome(DataRef(res.frame))
    THEN IF BufRemaining(Unwrap(DataRef(res.frame))) > rem
         THEN [out |-> ReadyErr(IntoBoxError(LengthLimitError)),
               remaining |-> 0, raised |-> TRUE]
         ELSE [out |-> ReadyOk(res.frame),
               remaining |-> rem - BufRemaining(Unwrap(DataRef(res.frame))),
               raised |-> FALSE]
    ELSE [out |-> IF res.poll = "Err" THEN Pending ELSE res,
          remaining |-> rem, raised |-> FALSE]

(* Limited::poll_frame that ends the stream at remaining 0 without asking  *)
(* the wrapped producer                                                    *)
PollFrameFusedAtZero(rem, res) ==
    IF rem = 0
    THEN [out |-> ReadyNone, remaining |-> rem, raised |-> FALSE]
    ELSE IF res.poll = "Ok"
         THEN LET n == IF IsSome(DataRef(res.frame))
                       THEN BufRemaining(Unwrap(DataRef(res.frame))) ELSE 0 IN
              IF n > rem
              THEN [out |-> ReadyErr(IntoBoxError(LengthLimitError)),
                    remaining |-> 0, raised |-> TRUE]
              ELSE [out |-> ReadyOk(res.frame), remaining |-> rem - n,
                    raised |-> FALSE]
         ELSE [out |-> MapErrInto(res), remaining |-> rem, raised |-> FALSE]

(* Limited::poll_frame on the answer `res` of the wrapped producer's       *)
(* poll_frame.  `raised` is history: this call took the branch that        *)
(* creates LengthLimitError.                                               *)
LimitedPollFrame(rem, res) ==
    CASE res.poll = "Pending" ->
            [out |-> Pending, remaining |-> rem, raised |-> FALSE]
      [] res.poll = "None" ->
            [out |-> ReadyNone, remaining |-> rem, raised |-> FALSE]
      [] res.poll = "Ok" ->
            LET data == DataRef(res.frame) IN
            IF IsSome(data)
            THEN IF BufRemaining(Unwrap(data)) > rem
                 THEN [out |-> ReadyErr(IntoBoxError(LengthLimitError)),
                       remaining |-> 0, raised |-> TRUE]
                 ELSE [out |-> ReadyOk(res.frame),
                       remaining |-> rem - BufRemaining(Unwrap(data)),
                       raised |-> FALSE]
            ELSE [out |-> ReadyOk(res.frame), remaining |-> rem, raised |-> FALSE]
      [] res.poll = "Err" ->
            [out |-> ReadyErr(IntoBoxError(res.err)), remaining |-> rem,
             raised |-> FALSE]

(* Limited::is_end_stream that reports the end once the budget is used up *)
IsEndStreamAtZeroBudget(rem, innerEnd) == rem = 0 \/ innerEnd

(* Limited::is_end_stream; `innerEnd` is what the wrapped producer's       *)
(* is_end_stream answers                                                   *)
LimitedIsEndStream(rem, innerEnd) == innerEnd

(* u64::try_from(usize) *)
TryFromUsize(n) ==
    IF UsizeBits <= U64Bits \/ n < 2 ^ U64Bits THEN SomeOpt(n) ELSE NoneOpt

(* Limited::size_hint that leaves a hint without upper bound uncapped *)
SizeHintNoUpperUncapped(rem, inner) ==
    IF inner.lower >= rem
    THEN SetExact(inner, rem)
    ELSE IF IsSome(inner.upper)
         THEN SetUpper(inner, Min(rem, Unwrap(inner.upper)))
         ELSE inner

(* Limited::size_hint without the branch for lower >= remaining *)
SizeHintWithoutExactBranch(rem, inner) ==
    IF IsSome(inner.upper)
    THEN SetUpper(inner, Min(rem, Unwrap(inner.upper)))
    ELSE SetUpper(inner, rem)

(* Limited::size_hint with max for min *)
SizeHintTakesMax(rem, inner) ==
    IF inner.lower >= rem
    THEN SetExact(inner, rem)
    ELSE IF IsSome(inner.upper)
         THEN SetUpper(inner, IF rem >= Unwrap(inner.upper)
                              THEN rem ELSE Unwrap(inner.upper))
         ELSE SetUpper(inner, rem)

(* The arms of Limited::size_hint with SizeHint::default() in the Err arm *)
SizeHintErrGivesDefault(conv, inner) ==
    IF IsSome(conv)
    THEN LET n == Unwrap(conv) IN
         IF inner.lower >= n
         THEN SetExact(inner, n)
         ELSE IF IsSome(inner.upper)
              THEN SetUpper(inner, Min(n, Unwrap(inner.upper)))
              ELSE SetUpper(inner, n)
    ELSE Hint(0, NoneOpt)

(* The two arms of the match in Limited::size_hint: `conv` is what         *)
(* u64::try_from(self.remaining) answered, Ok(n) as SomeOpt(n) and Err(_)  *)
(* as NoneOpt, `inner` is the wrapped producer's hint                      *)
SizeHintFrom(conv, inner) ==
    IF IsSome(conv)
    THEN LET n == Unwrap(conv) IN
         IF inner.lower >= n
         THEN SetExact(inner, n)
         ELSE IF IsSome(inner.upper)
              THEN SetUpper(inner, Min(n, Unwrap(inner.upper)))
              ELSE SetUpper(inner, n)
    ELSE inner

(* Limited::size_hint *)
LimitedSizeHint(rem, inner) == SizeHintFrom(TryFromUsize(rem), inner)

----------------------------------------------------------------------------
(* Either<L, R> *)

(* The two type parameters are body types; each has its own error type *)
BodyTypes == {"A", "B"}

BodyErrors(ty) == IF ty = "A" THEN {Concrete("ErrorA")} ELSE {Boxed("ErrorB")}

BodyResults(ty) ==
    {Pending, ReadyNone}
        \cup {ReadyOk(f) : f \in Frames}
        \cup {ReadyErr(e) : e \in BodyErrors(ty)}

(* A wrapped body: its type and how far polling has advanced it *)
Body(ty, cur) == [type |-> ty, cursor |-> cur]

(* The wrapped body after one call of its poll_frame *)
Polled(body) == [body EXCEPT !.cursor = @ + 1]

(* Either::Left / Either::Right *)
Left(l) == [tag |-> "Left", left |-> l]
Right(r) == [tag |-> "Right", right |-> r]

(* Either once into_inner has consumed it *)
NoEither == [tag |-> "Gone"]

(* Either::project *)
Project(e) ==
    CASE e.tag = "Left" -> [tag |-> "Left", pinned |-> e.left]
      [] e.tag = "Right" -> [tag |-> "Right", pinned |-> e.right]

(* Either::poll_frame whose Right arm drops the conversion and the frame *)
EitherPollFrameRightEnds(e, res) ==
    CASE e.tag = "Left" ->
            [out |-> MapErrInto(res), either |-> Left(Polled(e.left))]
      [] e.tag = "Right" ->
            [out |-> IF res.poll = "Pending" THEN Pending ELSE ReadyNone,
             either |-> Right(Polled(e.right))]

(* Either::poll_frame; `res` is what the polled body answers *)
EitherPollFrame(e, res) ==
    LET proj == Project(e) IN
    CASE proj.tag = "Left" ->
            [out |-> MapErrInto(res), either |-> Left(Polled(proj.pinned))]
      [] proj.tag = "Right" ->
            [out |-> MapErrInto(res), either |-> Right(Polled(proj.pinned))]

(* Either::is_end_stream; `ends` is what is_end_stream of a body in the    *)
(* Left case and of a body in the Right case answers                       *)
EitherIsEndStream(e, ends) ==
    CASE e.tag = "Left" -> ends.Left
      [] e.tag = "Right" -> ends.Right

(* Either::size_hint; `hints` is what size_hint of a body in the Left case *)
(* and of a body in the Right case answers                                 *)
EitherSizeHint(e, hints) ==
    CASE e.tag = "Left" -> hints.Left
      [] e.tag = "Right" -> hints.Right

(* into_inner whose Right arm builds a fresh value *)
IntoInnerRightFresh(e) ==
    CASE e.tag = "Left" -> e.left
      [] e.tag = "Right" -> Body(e.right.type, 0)

(* Either::<L, L>::into_inner *)
IntoInner(e) ==
    CASE e.tag = "Left" -> e.left
      [] e.tag = "Right" -> e.right

----------------------------------------------------------------------------
(* The specification of Limited *)

InitLimited ==
    /\ limit \in 0..MaxLimit
    /\ remaining = LimitedNew(limit).remaining
    /\ innerErrorType \in InnerErrorTypes
    /\ innerHint \in ValidInnerHints
    /\ lastPoll = NoneOpt
    /\ produced = 0
    /\ delivered = 0
    /\ raisedEver = FALSE
    /\ errored = FALSE

EitherIdle ==
    /\ typeParams = [L |-> "A", R |-> "A"]
    /\ either = NoEither
    /\ constructed = NoEither
    /\ eitherPolls = 0
    /\ lastEitherPoll = NoneOpt
    /\ unwrapped = NoneOpt

(* No call of size_hint is followed on its own *)
HintIdle ==
    /\ hintInput = [conv |-> NoneOpt, inner |-> Hint(0, NoneOpt)]
    /\ hinted = NoneOpt

Init == InitLimited /\ EitherIdle /\ HintIdle

(* The upper bound of a hint; larger than every bound of the model when    *)
(* the hint has none                                                       *)
Unbounded == MaxLimit + MaxHint + 1
UpperOf(hint) == IF IsSome(hint.upper) THEN Unwrap(hint.upper) ELSE Unbounded

(* The upper bound that Limited::size_hint reports in this state *)
ReportedUpper == UpperOf(LimitedSizeHint(remaining, innerHint))

(* Data bytes carried by a poll result *)
DataBytes(res) ==
    IF res.poll = "Ok" /\ res.frame.tag = "Data" THEN Len(res.frame.data) ELSE 0

(* One call of Limited::poll_frame; the wrapped producer answers `res` *)
PollFrame ==
    /\ \E res \in InnerResults(innerErrorType) :
         LET r == LimitedPollFrame(remaining, res) IN
         /\ produced + DataBytes(res) <= MaxProduced
         /\ remaining' = r.remaining
         /\ lastPoll' = SomeOpt([inner |-> res, out |-> r.out,
                                 before |-> remaining, after |-> r.remaining,
                                 raised |-> r.raised,
                                 upperBefore |-> ReportedUpper,
                                 innerUpperBefore |-> UpperOf(innerHint),
                                 producedBefore |-> produced,
                                 deliveredBefore |-> delivered,
                                 raisedBefore |-> raisedEver])
         /\ produced' = produced + DataBytes(res)
         /\ delivered' = delivered + DataBytes(r.out)
         /\ raisedEver' = (raisedEver \/ r.raised)
         /\ errored' = (errored \/ r.out.poll = "Err")
    /\ UNCHANGED <<limit, innerErrorType, innerHint>>
    /\ UNCHANGED eitherVars
    /\ UNCHANGED hintVars

(* The wrapped producer's size hint changes: hints are advisory, are       *)
(* recomputed on every query, and a producer may shrink or grow its own    *)
InnerHintChanges ==
    /\ \E h \in ValidInnerHints : h # innerHint /\ innerHint' = h
    /\ UNCHANGED <<limit, remaining, innerErrorType, lastPoll, produced,
                   delivered, raisedEver, errored>>
    /\ UNCHANGED eitherVars
    /\ UNCHANGED hintVars

Next == PollFrame \/ InnerHintChanges

Spec == Init /\ [][Next]_vars

----------------------------------------------------------------------------
(* Properties of Limited, checked under Spec *)

LimitError == ReadyErr(Boxed("LengthLimitError"))

IsData(res) == res.poll = "Ok" /\ res.frame.tag = "Data"
IsTrailers(res) == res.poll = "Ok" /\ res.frame.tag = "Trailers"

(* The latest poll answered exactly as the wrapped producer did, an error  *)
(* being converted into the erased error that still downcasts to it        *)
SameAsInner(p) ==
    /\ p.out.poll = p.inner.poll
    /\ p.inner.poll = "Ok" => p.out.frame = p.inner.frame
    /\ p.inner.poll = "Err" =>
         /\ p.out.err.boxed
         /\ DowncastRef(p.out.err, p.inner.err.type)
              = SomeOpt(Concrete(p.inner.err.type))

(* C1: over every producer and every sequence of polls, the data bytes     *)
(* Limited has returned as Ok never add up to more than limit.             *)
C1_DeliveredNeverExceedsLimit == delivered <= limit

(* C1 happens: the whole of a positive limit was delivered and a further   *)
(* data frame was then refused.                                            *)
C1_Witness ==
    /\ limit > 0
    /\ delivered = limit
    /\ IsSome(lastPoll)
    /\ Unwrap(lastPoll).raised

(* C2: while the wrapped producer's data bytes add up to S <= limit, every *)
(* poll of Limited answers as the producer did (frames unchanged, None for *)
(* None) and Limited creates no length-limit error, S = limit included.    *)
(* Holding in every state, it covers every poll of such a body in order.   *)
C2_UnderLimitIsTransparent ==
    produced <= limit =>
        /\ ~raisedEver
        /\ delivered = produced
        /\ IsSome(lastPoll) => SameAsInner(Unwrap(lastPoll))

(* C2 happens: a body of more than one frame used the limit up exactly     *)
(* and then ended with None.                                               *)
C2_Witness ==
    /\ limit > MaxFrameLen
    /\ produced = limit
    /\ delivered = limit
    /\ IsSome(lastPoll)
    /\ Unwrap(lastPoll).inner = ReadyNone
    /\ Unwrap(lastPoll).out = ReadyNone

(* C3 as stated: frames pass while the running total stays <= limit, the   *)
(* first frame that crosses the limit is answered with the length-limit    *)
(* error, and Limited yields no frame after that.                          *)
C3_Original ==
    IsSome(lastPoll) =>
        LET p == Unwrap(lastPoll) IN
        /\ (produced <= limit /\ p.inner.poll = "Ok") => p.out = p.inner
        /\ (p.producedBefore <= limit /\ produced > limit) =>
             (p.out = LimitError /\ delivered = p.deliveredBefore)
        /\ p.producedBefore > limit => p.out.poll # "Ok"

(* C3 amended: ... and Limited delivers no data byte after that; trailers  *)
(* and empty data frames of later polls still pass.                        *)
C3_OverLimitStopsData ==
    IsSome(lastPoll) =>
        LET p == Unwrap(lastPoll) IN
        /\ (produced <= limit /\ p.inner.poll = "Ok") => p.out = p.inner
        /\ (p.producedBefore <= limit /\ produced > limit) =>
             (p.out = LimitError /\ delivered = p.deliveredBefore)
        /\ p.producedBefore > limit =>
             /\ delivered = p.deliveredBefore
             /\ (IsData(p.inner) /\ Len(p.inner.frame.data) > 0) => p.out = LimitError
             /\ ~(IsData(p.inner) /\ Len(p.inner.frame.data) > 0) => SameAsInner(p)

(* C3 happens: frames were delivered, budget was left, and the next frame  *)
(* crossed the limit.                                                      *)
C3_Witness ==
    /\ IsSome(lastPoll)
    /\ Unwrap(lastPoll).deliveredBefore > 0
    /\ Unwrap(lastPoll).before > 0
    /\ Unwrap(lastPoll).producedBefore <= limit
    /\ produced > limit
    /\ Unwrap(lastPoll).out = LimitError

(* C4: a data frame longer than the remaining budget is answered with the  *)
(* length-limit error, remaining becomes 0 and none of its bytes are       *)
(* delivered, also when remaining was positive.                            *)
C4_OverBudgetFrameIsDiscarded ==
    IsSome(lastPoll) =>
        LET p == Unwrap(lastPoll) IN
        (IsData(p.inner) /\ BufRemaining(p.inner.frame.data) > p.before) =>
            /\ p.out = LimitError
            /\ DowncastRef(p.out.err, "LengthLimitError") = SomeOpt(LengthLimitError)
            /\ p.after = 0
            /\ remaining = 0
            /\ delivered = p.deliveredBefore

(* C4 happens: the frame was over a positive remaining budget *)
C4_Witness ==
    /\ IsSome(lastPoll)
    /\ IsData(Unwrap(lastPoll).inner)
    /\ Unwrap(lastPoll).before > 0
    /\ BufRemaining(Unwrap(lastPoll).inner.frame.data) > Unwrap(lastPoll).before

(* C5: a trailers frame passes unchanged whatever the budget is, and the   *)
(* poll that returns it leaves remaining as it was.                        *)
C5_TrailersPassUncounted ==
    IsSome(lastPoll) =>
        LET p == Unwrap(lastPoll) IN
        IsTrailers(p.inner) =>
            /\ p.out = p.inner
            /\ p.after = p.before
            /\ remaining = p.before
            /\ delivered = p.deliveredBefore

(* C5 happens: trailers arrive at a zero budget after a length-limit error *)
C5_Witness ==
    /\ IsSome(lastPoll)
    /\ IsTrailers(Unwrap(lastPoll).inner)
    /\ Unwrap(lastPoll).before = 0
    /\ Unwrap(lastPoll).raisedBefore
    /\ limit > 0

(* C6 as stated: the reported upper bound is at most limit and, while no   *)
(* error has occurred, a size_hint after a poll never reports a larger     *)
(* upper bound than a size_hint before that poll did, whatever the wrapped *)
(* producer's own hint has done since.                                     *)
C6_Original ==
    /\ ReportedUpper <= limit
    /\ (IsSome(lastPoll) /\ ~errored) =>
         ReportedUpper <= Unwrap(lastPoll).upperBefore

(* C6 amended: the reported upper bound is at most remaining, which is at  *)
(* most limit, and a size_hint after a poll reports no larger upper bound  *)
(* than a size_hint before that poll did provided the wrapped producer's   *)
(* own upper bound has not grown in between.                               *)
C6_UpperBoundedByBudget ==
    /\ ReportedUpper <= remaining
    /\ remaining <= limit
    /\ (IsSome(lastPoll)
          /\ UpperOf(innerHint) <= Unwrap(lastPoll).innerUpperBefore) =>
         ReportedUpper <= Unwrap(lastPoll).upperBefore

(* C6 happens: a poll delivered data without error, the producer's upper   *)
(* bound did not grow, and the reported upper bound went down to the       *)
(* budget that is left.                                                    *)
C6_Witness ==
    /\ ~errored
    /\ IsSome(lastPoll)
    /\ Unwrap(lastPoll).after < Unwrap(lastPoll).before
    /\ remaining > 0
    /\ IsSome(innerHint.upper)
    /\ Unwrap(innerHint.upper) > remaining
    /\ UpperOf(innerHint) <= Unwrap(lastPoll).innerUpperBefore
    /\ ReportedUpper = remaining
    /\ ReportedUpper < Unwrap(lastPoll).upperBefore

(* C7 as stated: an error of the wrapped producer is returned erased but   *)
(* still downcasts to the producer's error, is distinguishable from the    *)
(* length-limit error, is returned once, and remaining is unchanged.       *)
C7_Original ==
    IsSome(lastPoll) =>
        LET p == Unwrap(lastPoll) IN
        p.inner.poll = "Err" =>
            /\ SameAsInner(p)
            /\ DowncastRef(p.out.err, "LengthLimitError") = NoneOpt
            /\ ~p.raised
            /\ p.after = p.before
            /\ remaining = p.before

(* C7 amended: ... it is distinguishable from the length-limit error       *)
(* unless the producer's error is itself a boxed LengthLimitError (the     *)
(* producer is, or contains, another Limited).                             *)
C7_InnerErrorForwarded ==
    IsSome(lastPoll) =>
        LET p == Unwrap(lastPoll) IN
        p.inner.poll = "Err" =>
            /\ SameAsInner(p)
            /\ p.inner.err # Boxed("LengthLimitError")
                 => DowncastRef(p.out.err, "LengthLimitError") = NoneOpt
            /\ ~p.raised
            /\ p.after = p.before
            /\ remaining = p.before
            /\ delivered = p.deliveredBefore

(* C7 happens: a concrete error arrives while budget is left *)
C7_Witness ==
    /\ IsSome(lastPoll)
    /\ Unwrap(lastPoll).inner = ReadyErr(Concrete("ErrorBodyError"))
    /\ Unwrap(lastPoll).out = ReadyErr(Boxed("ErrorBodyError"))
    /\ Unwrap(lastPoll).before > 0

(* C10: once Limited has created the length-limit error, remaining is 0 in *)
(* every later state, every later poll in which the producer yields a      *)
(* non-empty data frame is answered with the length-limit error again, and *)
(* no data byte is delivered any more.                                     *)
C10_LimitErrorIsTerminal ==
    raisedEver =>
        /\ remaining = 0
        /\ Unwrap(lastPoll).raisedBefore =>
             LET p == Unwrap(lastPoll) IN
             /\ p.before = 0
             /\ delivered = p.deliveredBefore
             /\ (IsData(p.inner) /\ BufRemaining(p.inner.frame.data) > 0)
                  => (p.out = LimitError /\ p.raised)

(* C10 happens: after the error the body is polled again and the producer  *)
(* yields a frame that would have fitted the budget before the error.      *)
C10_Witness ==
    /\ IsSome(lastPoll)
    /\ Unwrap(lastPoll).raisedBefore
    /\ IsData(Unwrap(lastPoll).inner)
    /\ BufRemaining(Unwrap(lastPoll).inner.frame.data) > 0
    /\ BufRemaining(Unwrap(lastPoll).inner.frame.data) + delivered <= limit

(* C11: budget accounting is cumulative: before any length-limit error     *)
(* remaining is limit minus the data bytes delivered so far, and a data    *)
(* frame of length n <= remaining (n = remaining included) passes          *)
(* unchanged and takes exactly n off remaining.                            *)
C11_BudgetIsCumulative ==
    /\ ~raisedEver => remaining + delivered = limit
    /\ IsSome(lastPoll) =>
         LET p == Unwrap(lastPoll) IN
         (IsData(p.inner) /\ BufRemaining(p.inner.frame.data) <= p.before) =>
             /\ p.out = p.inner
             /\ ~p.raised
             /\ p.after + BufRemaining(p.inner.frame.data) = p.before
             /\ remaining = p.after
             /\ delivered = p.deliveredBefore + BufRemaining(p.inner.frame.data)

(* C11 happens: after an earlier frame, a frame of more than one byte uses *)
(* up exactly what is left.                                                *)
C11_Witness ==
    /\ IsSome(lastPoll)
    /\ IsData(Unwrap(lastPoll).inner)
    /\ Unwrap(lastPoll).deliveredBefore > 0
    /\ BufRemaining(Unwrap(lastPoll).inner.frame.data) > 1
    /\ BufRemaining(Unwrap(lastPoll).inner.frame.data) = Unwrap(lastPoll).before
    /\ ~raisedEver

(* C12: remaining starts as limit, never increases, stays within           *)
(* 0..limit, and the subtraction remaining -= n is only made with          *)
(* n <= remaining, so it never underflows.                                 *)
C12_RemainingWithinLimit ==
    /\ remaining \in 0..limit
    /\ lastPoll = NoneOpt => remaining = limit
    /\ IsSome(lastPoll) =>
         LET p == Unwrap(lastPoll) IN
         /\ remaining = p.after
         /\ p.after <= p.before
         /\ p.before <= limit
         /\ IsData(p.out) => BufRemaining(p.out.frame.data) <= p.before

(* C12 happens: a subtraction brought a positive remaining down to 0 *)
C12_Witness ==
    /\ IsSome(lastPoll)
    /\ IsData(Unwrap(lastPoll).out)
    /\ Unwrap(lastPoll).before > 0
    /\ Unwrap(lastPoll).after = 0
    /\ remaining = 0

(* C13: Limited::poll_frame answers Pending exactly when the wrapped       *)
(* producer's poll answered Pending, and then nothing of Limited changes.  *)
C13_PendingIffInnerPending ==
    IsSome(lastPoll) =>
        LET p == Unwrap(lastPoll) IN
        /\ (p.out = Pending) <=> (p.inner = Pending)
        /\ p.inner = Pending =>
             /\ p.after = p.before
             /\ remaining = p.before
             /\ delivered = p.deliveredBefore
             /\ raisedEver = p.raisedBefore

(* C13 happens: Pending arrives when part of the budget has been used *)
C13_Witness ==
    /\ IsSome(lastPoll)
    /\ Unwrap(lastPoll).inner = Pending
    /\ Unwrap(lastPoll).deliveredBefore > 0
    /\ Unwrap(lastPoll).before > 0

(* C14: when the wrapped producer answers Ready(None), so does Limited,    *)
(* whatever remaining is, and remaining is left as it was.                 *)
C14_NonePassesThrough ==
    IsSome(lastPoll) =>
        LET p == Unwrap(lastPoll) IN
        p.inner = ReadyNone =>
            /\ p.out = ReadyNone
            /\ ~p.raised
            /\ p.after = p.before
            /\ remaining = p.before

(* C14 happens: the producer ends while budget is left unused *)
C14_Witness ==
    /\ IsSome(lastPoll)
    /\ Unwrap(lastPoll).inner = ReadyNone
    /\ Unwrap(lastPoll).before > 0
    /\ delivered < limit

(* C15: Limited::size_hint is the pointwise minimum of the wrapped          *)
(* producer's hint and remaining: exact at remaining when the producer's   *)
(* lower bound is >= remaining; otherwise the producer's lower bound and   *)
(* the smaller of remaining and the producer's upper bound, remaining when *)
(* the producer has no upper bound.                                        *)
C15_SizeHintIsPointwiseMin ==
    LET h == LimitedSizeHint(remaining, innerHint) IN
    /\ h.lower = Min(innerHint.lower, remaining)
    /\ h.upper = SomeOpt(Min(UpperOf(innerHint), remaining))
    /\ innerHint.lower >= remaining =>
         (h.lower = remaining /\ h.upper = SomeOpt(remaining))
    /\ innerHint.lower < remaining =>
         /\ h.lower = innerHint.lower
         /\ IsSome(innerHint.upper) =>
              h.upper = SomeOpt(Min(remaining, Unwrap(innerHint.upper)))
         /\ ~IsSome(innerHint.upper) => h.upper = SomeOpt(remaining)

(* C15 happens: part of the budget is used, the producer's lower bound is  *)
(* below what is left and it has no upper bound.                           *)
C15_Witness ==
    /\ delivered > 0
    /\ remaining > 0
    /\ innerHint.lower > 0
    /\ innerHint.lower < remaining
    /\ ~IsSome(innerHint.upper)

(* C19: for every hint of the wrapped producer with lower <= upper and     *)
(* every remaining, set_upper is never given a value below the hint's      *)
(* lower bound, so size_hint does not panic, and the hint it returns has   *)
(* lower <= upper.                                                         *)
C19_SizeHintNeverPanics ==
    LET h == LimitedSizeHint(remaining, innerHint) IN
    /\ h # PanicHint
    /\ IsSome(h.upper) => h.lower <= Unwrap(h.upper)

(* C19 happens: the producer's lower bound is above a remaining that a     *)
(* length-limit error has zeroed.                                          *)
C19_Witness ==
    /\ raisedEver
    /\ remaining = 0
    /\ innerHint.lower > remaining
    /\ IsSome(innerHint.upper)

----------------------------------------------------------------------------
(* The specification of Either *)

LimitedIdle ==
    /\ limit = 0
    /\ remaining = LimitedNew(limit).remaining
    /\ innerErrorType = "ErrorBodyError"
    /\ innerHint = Hint(0, NoneOpt)
    /\ lastPoll = NoneOpt
    /\ produced = 0
    /\ delivered = 0
    /\ raisedEver = FALSE
    /\ errored = FALSE

(* Either::Left(l) or Either::Right(r), of a body that may already have    *)
(* been polled before it was wrapped                                       *)
EitherNew ==
    /\ typeParams \in [L : BodyTypes, R : BodyTypes]
    /\ \E cur \in 0..1 :
         \/ /\ either = Left(Body(typeParams.L, cur))
            /\ constructed = [tag |-> "Left", value |-> Body(typeParams.L, cur)]
         \/ /\ either = Right(Body(typeParams.R, cur))
            /\ constructed = [tag |-> "Right", value |-> Body(typeParams.R, cur)]
    /\ eitherPolls = 0
    /\ lastEitherPoll = NoneOpt
    /\ unwrapped = NoneOpt

(* One call of Either::poll_frame; the populated body answers `res` *)
EitherPoll ==
    /\ either # NoEither
    /\ Project(either).pinned.cursor < MaxCursor
    /\ \E res \in BodyResults(Project(either).pinned.type) :
         LET r == EitherPollFrame(either, res) IN
         /\ either' = r.either
         /\ lastEitherPoll' = SomeOpt([inner |-> res, out |-> r.out,
                                       before |-> either, after |-> r.either])
    /\ eitherPolls' = eitherPolls + 1
    /\ UNCHANGED <<typeParams, constructed, unwrapped>>
    /\ UNCHANGED limitedVars
    /\ UNCHANGED hintVars

(* into_inner, which exists only for Either<L, L> and consumes the value *)
EitherIntoInner ==
    /\ either # NoEither
    /\ typeParams.L = typeParams.R
    /\ unwrapped' = SomeOpt(IntoInner(either))
    /\ either' = NoEither
    /\ UNCHANGED <<typeParams, constructed, eitherPolls, lastEitherPoll>>
    /\ UNCHANGED limitedVars
    /\ UNCHANGED hintVars

NextEither == EitherPoll \/ EitherIntoInner

InitEither == LimitedIdle /\ EitherNew /\ HintIdle

SpecEither == InitEither /\ [][NextEither]_vars

----------------------------------------------------------------------------
(* Properties of Either, checked under SpecEither *)

(* C8: a poll of Either::Left(b) or Either::Right(b) answers as the poll   *)
(* of b that it makes: the same Pending / frame / None / error class, the  *)
(* same frame, an error converted into the erased error only; and b is     *)
(* advanced by exactly that one poll.                                      *)
C8_EitherPollsAsWrapped ==
    IsSome(lastEitherPoll) =>
        LET p == Unwrap(lastEitherPoll) IN
        /\ SameAsInner(p)
        /\ p.inner.poll # "Err" => p.out = p.inner
        /\ p.after.tag = p.before.tag
        /\ p.before.tag = "Left" => p.after.left = Polled(p.before.left)
        /\ p.before.tag = "Right" => p.after.right = Polled(p.before.right)

(* C8 happens: Either::Right forwards a non-empty data frame *)
C8_Witness ==
    /\ IsSome(lastEitherPoll)
    /\ Unwrap(lastEitherPoll).before.tag = "Right"
    /\ IsData(Unwrap(lastEitherPoll).inner)
    /\ Len(Unwrap(lastEitherPoll).inner.frame.data) > 0

(* C9: into_inner returns the value the Either was constructed with (as    *)
(* the polls made through the Either have advanced it), for Left and for   *)
(* Right.                                                                  *)
C9_IntoInnerReturnsValue ==
    IsSome(unwrapped) =>
        Unwrap(unwrapped) =
            Body(constructed.value.type, constructed.value.cursor + eitherPolls)

(* C9 happens: into_inner of a Right that was never polled *)
C9_Witness ==
    /\ IsSome(unwrapped)
    /\ constructed.tag = "Right"
    /\ constructed.value.cursor > 0
    /\ eitherPolls = 0

----------------------------------------------------------------------------
(* The specification of the match in Limited::size_hint *)

(* What one call is given: the answer of u64::try_from(self.remaining),    *)
(* Ok(n) or Err(_), and the wrapped producer's hint.  Err(_) takes a       *)
(* target whose usize is wider than u64 and a remaining above u64::MAX     *)
HintInputs ==
    [conv : {NoneOpt} \cup {SomeOpt(n) : n \in 0..MaxLimit},
     inner : ValidInnerHints]

HintNew ==
    /\ hintInput \in HintInputs
    /\ hinted = NoneOpt

(* One call of Limited::size_hint *)
SizeHintCall ==
    /\ hinted' = SomeOpt([input |-> hintInput,
                          hint |-> SizeHintFrom(hintInput.conv, hintInput.inner)])
    /\ UNCHANGED hintInput
    /\ UNCHANGED <<limitedVars, eitherVars>>

(* Another remaining and another hint of the wrapped producer *)
HintInputChanges ==
    /\ \E i \in HintInputs : i # hintInput /\ hintInput' = i
    /\ UNCHANGED hinted
    /\ UNCHANGED <<limitedVars, eitherVars>>

NextHint == SizeHintCall \/ HintInputChanges

InitHint == LimitedIdle /\ EitherIdle /\ HintNew

SpecHint == InitHint /\ [][NextHint]_vars

(* C16: when remaining cannot be represented in u64, size_hint returns the *)
(* wrapped producer's hint unmodified.                                     *)
C16_UnrepresentableKeepsInnerHint ==
    IsSome(hinted) =>
        LET h == Unwrap(hinted) IN
        h.input.conv = NoneOpt => h.hint = h.input.inner

(* C16 happens: size_hint was called, the conversion failed, and the       *)
(* producer's hint has bounds that an Ok(n) arm would have changed.        *)
C16_Witness ==
    /\ IsSome(hinted)
    /\ Unwrap(hinted).input.conv = NoneOpt
    /\ Unwrap(hinted).input.inner.lower > 0
    /\ Unwrap(hinted).hint.lower > 0

----------------------------------------------------------------------------
(* The specification of both combinators: a run of Limited or a run of     *)
(* Either                                                                  *)

InitBoth == Init \/ InitEither

NextBoth ==
    \/ constructed = NoEither /\ Next
    \/ NextEither

SpecBoth == InitBoth /\ [][NextBoth]_vars

(* This run is a run of Limited *)
LimitedRuns == constructed = NoEither

(* C17: Limited::is_end_stream answers what the wrapped producer's         *)
(* is_end_stream answers at every remaining, before and after a limit      *)
(* error; Either::is_end_stream and Either::size_hint answer what the      *)
(* populated case's answer.                                                *)
C17_AccessorsPassThrough ==
    /\ LimitedRuns =>
         \A innerEnd \in BOOLEAN :
             LimitedIsEndStream(remaining, innerEnd) = innerEnd
    /\ either # NoEither =>
         /\ \A ends \in [Left : BOOLEAN, Right : BOOLEAN] :
                /\ either.tag = "Left" =>
                     EitherIsEndStream(either, ends) = ends.Left
                /\ either.tag = "Right" =>
                     EitherIsEndStream(either, ends) = ends.Right
         /\ \A hints \in [Left : ValidInnerHints, Right : ValidInnerHints] :
                /\ either.tag = "Left" =>
                     EitherSizeHint(either, hints) = hints.Left
                /\ either.tag = "Right" =>
                     EitherSizeHint(either, hints) = hints.Right

(* C17 happens: a limit error has zeroed remaining of a Limited that had a *)
(* budget, and is_end_stream is asked while the producer has not ended.    *)
C17_Witness ==
    /\ LimitedRuns
    /\ raisedEver
    /\ limit > 0
    /\ remaining = 0
    /\ LimitedIsEndStream(remaining, FALSE) = FALSE

(* C18: every call of Limited::poll_frame forwards to the wrapped          *)
(* producer whatever remaining is, 0 included, and whatever happened       *)
(* before: what it returns is decided by what the producer answered to     *)
(* this call, so no terminal state is kept.  Every call of                 *)
(* Either::poll_frame polls the populated case exactly once and leaves the *)
(* case as it is.                                                          *)
C18_EveryPollIsForwarded ==
    /\ IsSome(lastPoll) =>
         LET p == Unwrap(lastPoll) IN
         /\ p.inner = Pending => p.out = Pending
         /\ p.inner = ReadyNone => p.out = ReadyNone
         /\ IsTrailers(p.inner) => p.out = p.inner
         /\ p.inner.poll = "Err" => p.out = ReadyErr(IntoBoxError(p.inner.err))
         /\ (IsData(p.inner) /\ Len(p.inner.frame.data) <= p.before) =>
              p.out = p.inner
         /\ (IsData(p.inner) /\ Len(p.inner.frame.data) > p.before) =>
              p.out = LimitError
    /\ IsSome(lastEitherPoll) =>
         LET q == Unwrap(lastEitherPoll) IN
         /\ q.after.tag = q.before.tag
         /\ Project(q.after).pinned.type = Project(q.before).pinned.type
         /\ Project(q.after).pinned.cursor = Project(q.before).pinned.cursor + 1
         /\ q.out = MapErrInto(q.inner)

(* C18 happens: after a limit error, at remaining 0, a call still returns  *)
(* the trailers the wrapped producer answered.                             *)
C18_Witness ==
    /\ IsSome(lastPoll)
    /\ Unwrap(lastPoll).raisedBefore
    /\ Unwrap(lastPoll).before = 0
    /\ IsTrailers(Unwrap(lastPoll).inner)
    /\ Unwrap(lastPoll).out = Unwrap(lastPoll).inner

(* A poll result at which a driver polling until the first None or error   *)
(* stops                                                                   *)
Terminal(res) == res.poll = "None" \/ res.poll = "Err"

(* C20: a driver that polls Limited or Either until the first None or      *)
(* error stops at the latest at the poll at which it would stop on the     *)
(* wrapped producer alone: the wrapper returns Pending only when the       *)
(* producer does, returns None or an error whenever the producer does,     *)
(* and Either has polled its body as many times as it was polled itself.   *)
C20_DriverStopsNoLater ==
    /\ IsSome(lastPoll) =>
         LET p == Unwrap(lastPoll) IN
         /\ p.out.poll = "Pending" => p.inner.poll = "Pending"
         /\ Terminal(p.inner) => Terminal(p.out)
    /\ IsSome(lastEitherPoll) =>
         LET q == Unwrap(lastEitherPoll) IN
         /\ q.out.poll = "Pending" => q.inner.poll = "Pending"
         /\ Terminal(q.inner) => Terminal(q.out)
    /\ either # NoEither =>
         Project(either).pinned.cursor = constructed.value.cursor + eitherPolls

(* C20 happens: with budget left and no error so far, the wrapped producer *)
(* fails and Limited returns an error, so the driver stops.                *)
C20_Witness ==
    /\ IsSome(lastPoll)
    /\ Unwrap(lastPoll).before > 0
    /\ ~Unwrap(lastPoll).raisedBefore
    /\ Unwrap(lastPoll).inner.poll = "Err"
    /\ Terminal(Unwrap(lastPoll).out)
    /\ delivered > 0

====
